---- MODULE Spec2Model ----
(***************************************************************************)
(* A model of HLInt.py, the syntax checker of the language HL.             *)
(*                                                                         *)
(* Text is modelled character by character: a line is a sequence of        *)
(* one-character strings, and the four regular expressions of the          *)
(* validator, str.strip, str.startswith, str.isdigit and re.findall are    *)
(* operators over such sequences.  Indices of Python lists are 0-based;    *)
(* line_index keeps the code's 0-based value and the model reads element   *)
(* line_index + 1 of the 1-based TLA+ sequence.                            *)
(***************************************************************************)
EXTENDS Naturals, Sequences, FiniteSets

VARIABLES
    file_exists,    \* whether open(self.source_file_path) finds the file
    file,           \* the lines of the source file as readlines() returns them (newline left out)
    source_lines,   \* self.source_lines
    symbol_table,   \* self.symbol_table: a function from names to type names
    line_index,     \* the local line_index of _has_valid_syntax
    pc,             \* where run() stands: "start", "read", "nospaces", "res_sym",
                    \* "validating", "returned", "done"
    verdict,        \* the value _has_valid_syntax returned ("none" before it returns)
    nospaces_txt,   \* the content of NOSPACES.TXT
    res_sym_txt,    \* the content of RES_SYM.TXT: its lines
    printed,        \* what this call of run() has printed
    first_verdict,  \* history: the value the first validation of this object returned
    iterations      \* history: iterations of the while loop in the current validation

vars == <<file_exists, file, source_lines, symbol_table, line_index, pc, verdict,
          nospaces_txt, res_sym_txt, printed, first_verdict, iterations>>

----------------------------------------------------------------------------
(* Characters *)

Whitespace == {" ", "\t"}

Letter ==
    {"a", "b", "c", "d", "e", "f", "g", "h", "i", "j", "k", "l", "m",
     "n", "o", "p", "q", "r", "s", "t", "u", "v", "w", "x", "y", "z",
     "A", "B", "C", "D", "E", "F", "G", "H", "I", "J", "K", "L", "M",
     "N", "O", "P", "Q", "R", "S", "T", "U", "V", "W", "X", "Y", "Z"}

Digit == {"0", "1", "2", "3", "4", "5", "6", "7", "8", "9"}

\* [a-zA-Z0-9], the continuation class of the pattern of re.findall
AlphaNum == Letter \cup Digit

\* \w
WordChar == Letter \cup Digit \cup {"_"}

kw_integer == <<"i", "n", "t", "e", "g", "e", "r">>
kw_double == <<"d", "o", "u", "b", "l", "e">>
kw_output == <<"o", "u", "t", "p", "u", "t">>
kw_If == <<"I", "f">>

reserved_words == {kw_integer, kw_double, kw_output, kw_If}

----------------------------------------------------------------------------
(* String helpers.  A position i is the 1-based index of the next          *)
(* character to read; Len(s) + 1 is the end of the text.                   *)

\* The position after the longest run of characters of class starting at i.
RECURSIVE SpanWhile(_, _, _)
SpanWhile(s, i, class) ==
    IF i <= Len(s) /\ s[i] \in class THEN SpanWhile(s, i + 1, class) ELSE i

\* \s* read greedily from position i
SkipWS(s, i) == SpanWhile(s, i, Whitespace)

\* the literal lit stands at position i of s
LitAt(s, i, lit) ==
    /\ i + Len(lit) - 1 <= Len(s)
    /\ SubSeq(s, i, i + Len(lit) - 1) = lit

\* the position of the last character of s that is not whitespace, 0 if none
RECURSIVE LastNonWS(_, _)
LastNonWS(s, i) ==
    IF i >= 1 /\ s[i] \in Whitespace THEN LastNonWS(s, i - 1) ELSE i

\* str.strip()
Strip(s) == SubSeq(s, SkipWS(s, 1), LastNonWS(s, Len(s)))

\* s.startswith(' ') or s.startswith('\t')
StartsWithBlank(s) == Len(s) >= 1 /\ s[1] \in Whitespace

\* str.isdigit()
IsDigit(s) == Len(s) >= 1 /\ \A i \in 1..Len(s) : s[i] \in Digit

\* c in s
Contains(s, c) == \E i \in 1..Len(s) : s[i] = c

\* re.findall(r'[a-zA-Z][a-zA-Z0-9]*', s) from position i on
RECURSIVE FindIdentifiers(_, _)
FindIdentifiers(s, i) ==
    IF i > Len(s) THEN <<>>
    ELSE IF s[i] \in Letter
         THEN LET j == SpanWhile(s, i + 1, AlphaNum)
              IN  <<SubSeq(s, i, j - 1)>> \o FindIdentifiers(s, j)
         ELSE FindIdentifiers(s, i + 1)

----------------------------------------------------------------------------
(* The four patterns.  Each operator answers what re.match answers: ok,    *)
(* and the groups the code reads.                                          *)

NoMatch == [ok |-> FALSE]

\* \s*;\s*$ from position i
TailAt(s, i) ==
    LET j == SkipWS(s, i)
    IN  /\ j <= Len(s)
        /\ s[j] = ";"
        /\ SkipWS(s, j + 1) = Len(s) + 1

\* ^\s*([a-zA-Z]\w*)  the name and the position after it
NameAt(s) ==
    LET i == SkipWS(s, 1)
    IN  IF i <= Len(s) /\ s[i] \in Letter
        THEN LET j == SpanWhile(s, i + 1, WordChar)
             IN  [ok |-> TRUE, name |-> SubSeq(s, i, j - 1), next |-> j]
        ELSE [ok |-> FALSE, name |-> <<>>, next |-> i]

\* ^\s*([a-zA-Z]\w*)\s*:\s*(integer|double)\s*;\s*$
MatchDeclaration(line) ==
    LET n == NameAt(line)
        c == SkipWS(line, n.next)
        t == SkipWS(line, c + 1)
        ty == IF LitAt(line, t, kw_integer) THEN kw_integer
              ELSE IF LitAt(line, t, kw_double) THEN kw_double
              ELSE <<>>
    IN  IF /\ n.ok
           /\ LitAt(line, c, <<":">>)
           /\ ty # <<>>
           /\ TailAt(line, t + Len(ty))
        THEN [ok |-> TRUE, var_name |-> n.name, var_type |-> ty]
        ELSE NoMatch

\* ^\s*([a-zA-Z]\w*)\s*:=\s*(-?\d+(\.\d{1,2})?)\s*;\s*$
MatchAssignment(line) ==
    LET n == NameAt(line)
        c == SkipWS(line, n.next)
        v == SkipWS(line, c + 2)
        d == IF LitAt(line, v, <<"-">>) THEN v + 1 ELSE v
        e == SpanWhile(line, d, Digit)
        frac == SpanWhile(line, e + 1, Digit) - (e + 1)
        \* the end of group 2: with the fraction when one of 1 or 2 digits follows
        w == IF LitAt(line, e, <<".">>) /\ frac \in {1, 2} /\ TailAt(line, e + 1 + frac)
             THEN e + 1 + frac
             ELSE e
    IN  IF /\ n.ok
           /\ LitAt(line, c, <<":", "=">>)
           /\ e > d
           /\ TailAt(line, w)
        THEN [ok |-> TRUE, var_name |-> n.name, value |-> SubSeq(line, v, w - 1)]
        ELSE NoMatch

\* ^\s*output\s*<<\s*(.*)\s*;\s*$
MatchOutput(line) ==
    LET i == SkipWS(line, 1)
        l == SkipWS(line, i + Len(kw_output))
        g == SkipWS(line, l + 2)
        k == LastNonWS(line, Len(line))
    IN  IF /\ LitAt(line, i, kw_output)
           /\ LitAt(line, l, <<"<", "<">>)
           /\ k >= l + 2
           /\ line[k] = ";"
        THEN [ok |-> TRUE, content |-> SubSeq(line, g, k - 1)]
        ELSE NoMatch

\* ^\s*If\s*\((.*)\)\s*$
MatchIf(line) ==
    LET i == SkipWS(line, 1)
        p == SkipWS(line, i + Len(kw_If))
        k == LastNonWS(line, Len(line))
    IN  IF /\ LitAt(line, i, kw_If)
           /\ LitAt(line, p, <<"(">>)
           /\ k >= p + 1
           /\ line[k] = ")"
        THEN [ok |-> TRUE, condition |-> SubSeq(line, p + 1, k - 1)]
        ELSE NoMatch

----------------------------------------------------------------------------
(* The artifacts: NOSPACES.TXT and RES_SYM.TXT *)

\* self.symbols, in the order the alternation tries them
symbolsShortFirst ==
    <<<<"<">>, <<":">>, <<"=">>, <<"<", "<">>, <<":", "=">>, <<"=", "=">>, <<"!", "=">>,
      <<">">>, <<";">>, <<"+">>, <<"-">>, <<"(">>, <<")">>, <<"\"">>>>
symbols ==
    <<<<"<", "<">>, <<":", "=">>, <<"=", "=">>, <<"!", "=">>, <<">">>, <<"<">>, <<":">>,
      <<";">>, <<"+">>, <<"-">>, <<"=">>, <<"(">>, <<")">>, <<"\"">>>>

\* "\n".join(lines)
RECURSIVE JoinLines(_)
JoinLines(lines) ==
    IF lines = <<>> THEN <<>>
    ELSE IF Len(lines) = 1 THEN Head(lines)
    ELSE Head(lines) \o <<"\n">> \o JoinLines(Tail(lines))

\* re.sub(r'\s+', '', line)
RemoveWhitespace(line) == SelectSeq(line, LAMBDA c : c \notin Whitespace)

\* what _create_nospaces_file writes: the lines without whitespace, one after another
RECURSIVE NoSpacesText(_)
NoSpacesText(lines) ==
    IF lines = <<>> THEN <<>>
    ELSE RemoveWhitespace(Head(lines)) \o NoSpacesText(Tail(lines))

\* re.search(r'\b' + re.escape(word) + r'\b', text)
WordFound(word, text) ==
    \E i \in 1..Len(text) :
        /\ text[i] = word[1]
        /\ LitAt(text, i, word)
        /\ (i = 1 \/ text[i - 1] \notin WordChar)
        /\ (i + Len(word) > Len(text) \/ text[i + Len(word)] \notin WordChar)

\* the alternation symbol_pattern at position i: the first symbol of the
\* list, from index k on, that stands at i (<<>> when none does)
RECURSIVE SymbolAt(_, _, _)
SymbolAt(text, i, k) ==
    IF k > Len(symbols) THEN <<>>
    ELSE IF LitAt(text, i, symbols[k]) THEN symbols[k]
    ELSE SymbolAt(text, i, k + 1)

\* the characters a symbol can start with
SymbolStart == {symbols[k][1] : k \in 1..Len(symbols)}

\* re.finditer(symbol_pattern, text) from position i on: the matches, each
\* with its position, scanning on after the end of a match (where no symbol
\* starts with the character at i, no alternative can match at i)
RECURSIVE FindSymbols(_, _)
FindSymbols(text, i) ==
    IF i > Len(text) THEN <<>>
    ELSE IF text[i] \notin SymbolStart THEN FindSymbols(text, i + 1)
    ELSE LET m == SymbolAt(text, i, 1)
         IN  IF m # <<>>
             THEN <<[pos |-> i, sym |-> m]>> \o FindSymbols(text, i + Len(m))
             ELSE FindSymbols(text, i + 1)

\* the code points of the characters, for the order of sorted()
CodePoints ==
    <<"\t", "\n", " ", "!", "\"", "(", ")", "+", "-", ".",
      "0", "1", "2", "3", "4", "5", "6", "7", "8", "9", ":", ";", "<", "=", ">",
      "A", "B", "C", "D", "E", "F", "G", "H", "I", "J", "K", "L", "M",
      "N", "O", "P", "Q", "R", "S", "T", "U", "V", "W", "X", "Y", "Z", "_",
      "a", "b", "c", "d", "e", "f", "g", "h", "i", "j", "k", "l", "m",
      "n", "o", "p", "q", "r", "s", "t", "u", "v", "w", "x", "y", "z">>

CodeOf ==
    [c \in {CodePoints[i] : i \in 1..Len(CodePoints)} |->
        CHOOSE i \in 1..Len(CodePoints) : CodePoints[i] = c]

Code(c) == CodeOf[c]

\* a < b for two strings, as Python compares them
RECURSIVE StrLess(_, _)
StrLess(a, b) ==
    IF b = <<>> THEN FALSE
    ELSE IF a = <<>> THEN TRUE
    ELSE IF Head(a) = Head(b) THEN StrLess(Tail(a), Tail(b))
    ELSE Code(Head(a)) < Code(Head(b))

\* the sorted list with t put in its place
RECURSIVE Insert(_, _)
Insert(t, list) ==
    IF list = <<>> THEN <<t>>
    ELSE IF StrLess(t, Head(list)) THEN <<t>> \o list
    ELSE <<Head(list)>> \o Insert(t, Tail(list))

\* sorted(list(tokens))
RECURSIVE Sorted(_)
Sorted(tokens) ==
    IF tokens = {} THEN <<>>
    ELSE LET t == CHOOSE u \in tokens : TRUE
         IN  Insert(t, Sorted(tokens \ {t}))

\* found_tokens of _create_res_sym_file
FoundTokens(full_text, matches) ==
    {w \in reserved_words : WordFound(w, full_text)}
        \cup {matches[k].sym : k \in 1..Len(matches)}

----------------------------------------------------------------------------
(* The validator *)

EmptyTable == [n \in {} |-> <<>>]

\* [line for line in (l.strip() for l in f) if line]
RECURSIVE CleanLines(_)
CleanLines(f) ==
    IF f = <<>> THEN <<>>
    ELSE LET line == Strip(Head(f))
         IN  IF line # <<>> THEN <<line>> \o CleanLines(Tail(f))
             ELSE CleanLines(Tail(f))

\* _check_expression_variables
CheckExpressionVariables(expr_str, st) ==
    LET variables_in_expr == FindIdentifiers(expr_str, 1)
    IN  \A i \in 1..Len(variables_in_expr) :
            \/ variables_in_expr[i] \in reserved_words
            \/ variables_in_expr[i] \in DOMAIN st

\* content.startswith('"') and content.endswith('"')
IsStringLiteralNever(content) == FALSE
IsStringLiteral(content) ==
    /\ Len(content) >= 1
    /\ content[1] = "\""
    /\ content[Len(content)] = "\""

\* the check of an output statement's group 1, at top level and in a body
OutputContentValid(group, st) ==
    LET content == Strip(group)
    IN  IF ~IsStringLiteral(content)
        THEN CheckExpressionVariables(content, st)
        ELSE TRUE

\* var_name in self.symbol_table, the check of a top-level assignment's target
AssignmentDeclared(var_name, st) == var_name \in DOMAIN st

\* return var_name in self.symbol_table, of _is_valid_statement
BodyAssignmentAlways(var_name, st) == TRUE
BodyAssignmentDeclared(var_name, st) == var_name \in DOMAIN st

\* _is_valid_statement
IsValidStatementTyped(line, st) ==
    LET is_assignment == MatchAssignment(line)
        is_output == MatchOutput(line)
    IN  IF is_assignment.ok
        THEN /\ BodyAssignmentDeclared(is_assignment.var_name, st)
             /\ ~ /\ st[is_assignment.var_name] = kw_integer
                  /\ Contains(is_assignment.value, ".")
        ELSE IF is_output.ok THEN OutputContentValid(is_output.content, st)
        ELSE FALSE
IsValidStatement(line, st) ==
    LET is_assignment == MatchAssignment(line)
        is_output == MatchOutput(line)
    IN  IF is_assignment.ok THEN BodyAssignmentDeclared(is_assignment.var_name, st)
        ELSE IF is_output.ok THEN OutputContentValid(is_output.content, st)
        ELSE FALSE

\* if var_name in self.symbol_table: return False
RedeclaredNever(var_name, st) == FALSE
Redeclared(var_name, st) == var_name \in DOMAIN st

\* self.symbol_table[var_name] = var_type
DeclareAlone(st, var_name, var_type) == [n \in {var_name} |-> var_type]
Declare(st, var_name, var_type) ==
    [n \in DOMAIN st \cup {var_name} |-> IF n = var_name THEN var_type ELSE st[n]]

\* the type check of a top-level assignment
TypeMismatchIntegerInverted(var_type, value) ==
    LET is_int == ~Contains(value, ".")
    IN  \/ var_type = kw_integer /\ is_int
        \/ var_type = kw_double /\ is_int /\ ~IsDigit(value)
TypeMismatch(var_type, value) ==
    LET is_int == ~Contains(value, ".")
    IN  \/ var_type = kw_integer /\ ~is_int
        \/ var_type = kw_double /\ is_int /\ ~IsDigit(value)

\* line_index += 1, at the head of the loop body
AdvanceCursorNot(li) == li
AdvanceCursor(li) == li + 1

\* line_index += 1, skipping the body line of a conditional
SkipBody(li) == li + 1

\* open(self.source_file_path).readlines()[line_index]
NextLineFull(f, li) == f[li + 1]

\* One iteration of the while loop, after line_index += 1 (li is the
\* incremented index): what it returns or continues with.
Continue(li, st) == [ret |-> "continue", line_index |-> li, symbol_table |-> st]
ReturnFalseContinue(li, st) == Continue(li, st)
ReturnFalse(li, st) == [ret |-> "False", line_index |-> li, symbol_table |-> st]

\* if line_index >= len(self.source_lines): return False
MissingBodyContinue(li, st) == Continue(li, st)
MissingBody(li, st) == ReturnFalse(li, st)

IfStatement(match, li, st, src, f) ==
    IF ~CheckExpressionVariables(match.condition, st) THEN ReturnFalse(li, st)
    ELSE IF li >= Len(src) THEN MissingBody(li, st)
    ELSE LET next_line_full == NextLineFull(f, li)
             next_line_stripped == src[li + 1]
         IN  IF ~StartsWithBlank(next_line_full) THEN ReturnFalse(li, st)
             ELSE IF ~IsValidStatement(next_line_stripped, st) THEN ReturnFalse(li, st)
             ELSE Continue(SkipBody(li), st)

LoopBody(line, li, st, src, f) ==
    LET declaration == MatchDeclaration(line)
        assignment == MatchAssignment(line)
        output == MatchOutput(line)
        if_statement == MatchIf(line)
    IN  IF declaration.ok
        THEN IF Redeclared(declaration.var_name, st) THEN ReturnFalse(li, st)
             ELSE Continue(li, Declare(st, declaration.var_name, declaration.var_type))
        ELSE IF assignment.ok
        THEN IF ~AssignmentDeclared(assignment.var_name, st) THEN ReturnFalse(li, st)
             ELSE IF TypeMismatch(st[assignment.var_name], assignment.value)
                  THEN ReturnFalse(li, st)
                  ELSE Continue(li, st)
        ELSE IF output.ok
        THEN IF ~OutputContentValid(output.content, st) THEN ReturnFalse(li, st)
             ELSE Continue(li, st)
        ELSE IF if_statement.ok
        THEN IfStatement(if_statement, li, st, src, f)
        ELSE ReturnFalse(li, st)

----------------------------------------------------------------------------
(* The sources the model draws from *)

MaxLines == 4

DeclXInt == <<"x", " ", ":", " ", "i", "n", "t", "e", "g", "e", "r", " ", ";">>
DeclXDbl == <<"x", ":", "d", "o", "u", "b", "l", "e", ";">>
DeclYDbl == <<"y", " ", ":", " ", "d", "o", "u", "b", "l", "e", " ", ";">>
AsgX5 == <<"x", " ", ":", "=", " ", "5", " ", ";">>
AsgX5Ind == <<" ", "x", " ", ":", "=", " ", "5", " ", ";">>
AsgX5p5 == <<"x", " ", ":", "=", " ", "5", ".", "5", " ", ";">>
AsgXNeg3 == <<"x", ":", "=", "-", "3", ";">>
AsgYNeg3 == <<"y", " ", ":", "=", " ", "-", "3", " ", ";">>
AsgY3 == <<"y", ":", "=", "3", ";">>
AsgYNeg3p5 == <<"y", ":", "=", "-", "3", ".", "5", ";">>
AsgY2Ind == <<"\t", "y", ":", "=", "2", ";">>
OutX == <<"o", "u", "t", "p", "u", "t", " ", "<", "<", " ", "x", " ", ";">>
OutHello == <<"o", "u", "t", "p", "u", "t", " ", "<", "<", " ", "\"", "h", "e", "l", "l", "o", "\"", " ", ";">>
IfX == <<"I", "f", " ", "(", " ", "x", " ", "=", "=", " ", "1", " ", ")">>
IfXInd == <<" ", "I", "f", " ", "(", " ", "x", " ", "=", "=", " ", "1", " ", ")">>
Blank == <<>>
BlankWS == <<" ">>
Junk == <<"x", " ", "=", " ", "5">>
DeclAB == <<"a", "_", "b", " ", ":", " ", "i", "n", "t", "e", "g", "e", "r", " ", ";">>
OutAB == <<"o", "u", "t", "p", "u", "t", " ", "<", "<", " ", "a", "_", "b", " ", ";">>
DeclA == <<"a", ":", "i", "n", "t", "e", "g", "e", "r", ";">>
DeclB == <<"b", ":", "d", "o", "u", "b", "l", "e", ";">>
IfXNe == <<"I", "f", " ", "(", " ", "x", " ", "!", "=", " ", "1", " ", ")">>
IfXLe == <<"I", "f", " ", "(", " ", "x", " ", "<", "=", " ", "1", " ", ")">>
AsgX5p5Ind == <<" ", "x", " ", ":", "=", " ", "5", ".", "5", " ", ";">>
DeclYDblInd == <<" ", "y", " ", ":", " ", "d", "o", "u", "b", "l", "e", " ", ";">>
DeclInteger == <<"i", "n", "t", "e", "g", "e", "r", " ", ":", " ", "d", "o", "u", "b", "l", "e", " ", ";">>

\* every shape of statement, a blank line and a line of no shape
GeneralLines == {DeclXInt, DeclYDbl, AsgX5Ind, AsgY2Ind, OutX, IfX, Blank, Junk}

\* conditionals and bodies, indented and not, among blank lines
IndentLines == {DeclXInt, IfX, IfXInd, AsgX5, AsgX5Ind, Blank, BlankWS}

\* declarations of both types and literals of every form
TypeLines == {DeclXInt, DeclXDbl, DeclYDbl, AsgX5, AsgX5p5, AsgXNeg3, AsgYNeg3, AsgY3,
              AsgYNeg3p5}

\* outputs of names with and without an underscore, and of a string literal
OutputLines == {DeclXInt, OutX, DeclAB, OutAB, DeclA, DeclB, OutHello}

\* conditionals and the lines that may follow them as a body, and a
\* declaration of a reserved word
BodyLines == {DeclXInt, IfX, AsgX5p5Ind, AsgX5p5, AsgY2Ind, DeclYDblInd, IfXInd, DeclInteger}

\* lines with :, :=, <<, ==, != and <=
TokenLines == {DeclXInt, AsgX5Ind, OutX, IfX, IfXNe, IfXLe}

Files(lines) == UNION {[1..n -> lines] : n \in 0..MaxLines}

----------------------------------------------------------------------------
(* The state machine *)

InitOver(lines) ==
    /\ file_exists \in BOOLEAN
    /\ file \in IF file_exists THEN Files(lines) ELSE {<<>>}
    /\ source_lines = <<>>
    /\ symbol_table = EmptyTable
    /\ line_index = 0
    /\ pc = "start"
    /\ verdict = "none"
    /\ nospaces_txt = <<>>
    /\ res_sym_txt = <<>>
    /\ printed = <<>>
    /\ first_verdict = "none"
    /\ iterations = 0

Init == InitOver(GeneralLines)
InitIndent == InitOver(IndentLines)
InitTypes == InitOver(TypeLines)
InitOutput == InitOver(OutputLines)
InitBody == InitOver(BodyLines)
InitTokens == InitOver(TokenLines)

MsgNoError == "NO ERROR(S) FOUND"
MsgError == "ERROR"
MsgNotFound == "ERROR: Source file not found."

\* run(): _read_and_clean_source
ReadAndCleanSource ==
    /\ pc = "start"
    /\ file_exists
    /\ source_lines' = CleanLines(file)
    /\ pc' = "read"
    /\ UNCHANGED <<file_exists, file, symbol_table, line_index, verdict, nospaces_txt,
                   res_sym_txt, printed, first_verdict, iterations>>

\* run(): open() raises FileNotFoundError, the handler prints and run() ends
SourceNotFound ==
    /\ pc = "start"
    /\ ~file_exists
    /\ printed' = Append(printed, MsgNotFound)
    /\ pc' = "done"
    /\ UNCHANGED <<file_exists, file, source_lines, symbol_table, line_index, verdict,
                   nospaces_txt, res_sym_txt, first_verdict, iterations>>

\* run(): _create_nospaces_file
CreateNospacesFile ==
    /\ pc = "read"
    /\ nospaces_txt' = NoSpacesText(source_lines)
    /\ pc' = "nospaces"
    /\ UNCHANGED <<file_exists, file, source_lines, symbol_table, line_index, verdict,
                   res_sym_txt, printed, first_verdict, iterations>>

\* run(): _create_res_sym_file
CreateResSymFile ==
    /\ pc = "nospaces"
    /\ LET full_text == JoinLines(source_lines)
           matches == FindSymbols(full_text, 1)
       IN  res_sym_txt' = Sorted(FoundTokens(full_text, matches))
    /\ pc' = "res_sym"
    /\ UNCHANGED <<file_exists, file, source_lines, symbol_table, line_index, verdict,
                   nospaces_txt, printed, first_verdict, iterations>>

\* run() calls _has_valid_syntax: line_index = 0
StartValidation ==
    /\ pc = "res_sym"
    /\ line_index' = 0
    /\ iterations' = 0
    /\ pc' = "validating"
    /\ UNCHANGED <<file_exists, file, source_lines, symbol_table, verdict, nospaces_txt,
                   res_sym_txt, printed, first_verdict>>

Returned(v) ==
    /\ verdict' = v
    /\ first_verdict' = IF first_verdict = "none" THEN v ELSE first_verdict
    /\ pc' = "returned"

\* one iteration of the while loop of _has_valid_syntax
Iterate ==
    /\ pc = "validating"
    /\ line_index < Len(source_lines)
    /\ LET line == source_lines[line_index + 1]
           r == LoopBody(line, AdvanceCursor(line_index), symbol_table, source_lines, file)
       IN  /\ line_index' = r.line_index
           /\ symbol_table' = r.symbol_table
           /\ iterations' = iterations + 1
           /\ IF r.ret = "False"
              THEN Returned("False")
              ELSE UNCHANGED <<pc, verdict, first_verdict>>
    /\ UNCHANGED <<file_exists, file, source_lines, nospaces_txt, res_sym_txt, printed>>

\* the loop condition fails: return True
ReturnTrue ==
    /\ pc = "validating"
    /\ ~(line_index < Len(source_lines))
    /\ Returned("True")
    /\ UNCHANGED <<file_exists, file, source_lines, symbol_table, line_index, nospaces_txt,
                   res_sym_txt, printed, iterations>>

\* the message run() prints for what _has_valid_syntax returned
MessageSwapped(v) == IF v = "True" THEN MsgError ELSE MsgNoError
Message(v) == IF v = "True" THEN MsgNoError ELSE MsgError

\* run(): print the result
Report ==
    /\ pc = "returned"
    /\ printed' = Append(printed, Message(verdict))
    /\ pc' = "done"
    /\ UNCHANGED <<file_exists, file, source_lines, symbol_table, line_index, verdict,
                   nospaces_txt, res_sym_txt, first_verdict, iterations>>

\* run() is called again on the same object
RunAgain ==
    /\ pc = "done"
    /\ pc' = "start"
    /\ verdict' = "none"
    /\ printed' = <<>>
    /\ UNCHANGED <<file_exists, file, source_lines, symbol_table, line_index, nospaces_txt,
                   res_sym_txt, first_verdict, iterations>>

Next ==
    \/ ReadAndCleanSource
    \/ SourceNotFound
    \/ CreateNospacesFile
    \/ CreateResSymFile
    \/ StartValidation
    \/ Iterate
    \/ ReturnTrue
    \/ Report
    \/ RunAgain

Spec == Init /\ [][Next]_vars
SpecIndent == InitIndent /\ [][Next]_vars
SpecTypes == InitTypes /\ [][Next]_vars
SpecOutput == InitOutput /\ [][Next]_vars
SpecBody == InitBody /\ [][Next]_vars
SpecTokens == InitTokens /\ [][Next]_vars

----------------------------------------------------------------------------
(* Notions the properties are stated with *)

\* the 1-based position in the raw file f of the i-th line that is not blank
RECURSIVE RawPosFrom(_, _, _)
RawPosFrom(f, i, p) ==
    IF p > Len(f) THEN p
    ELSE IF Strip(f[p]) # <<>>
         THEN IF i = 1 THEN p ELSE RawPosFrom(f, i - 1, p + 1)
         ELSE RawPosFrom(f, i, p + 1)

RawPos(f, i) == RawPosFrom(f, i, 1)

Validating == pc = "validating" /\ line_index < Len(source_lines)
Accepted == pc = "done" /\ verdict = "True"
Rejected == pc = "done" /\ verdict = "False"

\* the line the next iteration reads, and the line a rejecting iteration read
CurrentLine == source_lines[line_index + 1]
RejectedLine == source_lines[line_index]

----------------------------------------------------------------------------
(* C1 *)

\* C1: a conditional line whose following source line (the raw line at the
\* position after the conditional's raw position) does not begin with a space
\* or a tab makes validation fail: no accepted source holds such a conditional.
C1_UnindentedBodyFails ==
    Accepted =>
        \A i \in 1..Len(source_lines) :
            (MatchIf(source_lines[i]).ok /\ RawPos(file, i) < Len(file))
                => StartsWithBlank(file[RawPos(file, i) + 1])

----------------------------------------------------------------------------
(* C2 *)

\* C2: the line whose leading whitespace the indentation check of a
\* conditional tests is the raw line at position p + 1, p the raw position of
\* the conditional; so validation never rejects at a conditional whose
\* variables are declared and whose next raw line is an indented valid
\* statement.
C2_TestsRawNextLine ==
    /\ ( /\ Validating
          /\ MatchIf(CurrentLine).ok
          /\ CheckExpressionVariables(MatchIf(CurrentLine).condition, symbol_table)
          /\ line_index + 1 < Len(source_lines) )
            => AdvanceCursor(line_index) + 1 = RawPos(file, line_index + 1) + 1
    /\ Rejected =>
            LET p == RawPos(file, line_index)
            IN  ~ /\ MatchIf(RejectedLine).ok
                  /\ CheckExpressionVariables(MatchIf(RejectedLine).condition, symbol_table)
                  /\ p < Len(file)
                  /\ StartsWithBlank(file[p + 1])
                  /\ IsValidStatement(Strip(file[p + 1]), symbol_table)

----------------------------------------------------------------------------
(* C3 *)

\* C3: after y : double ; the top-level assignment y := -3 ; is accepted:
\* validation never rejects at that line when y is declared double.
C3_NegativeIntegerToDoubleAccepted ==
    Rejected =>
        ~ /\ RejectedLine = AsgYNeg3
          /\ <<"y">> \in DOMAIN symbol_table
          /\ symbol_table[<<"y">>] = kw_double

----------------------------------------------------------------------------
(* C4 *)

\* the line is output << x ; with x a name of the shape [a-zA-Z]\w*
OutputOfName(line) ==
    LET m == MatchOutput(line)
    IN  /\ m.ok
        /\ NameAt(Strip(m.content)).ok
        /\ NameAt(Strip(m.content)).next = Len(Strip(m.content)) + 1

OutputName(line) == NameAt(Strip(MatchOutput(line).content)).name

\* C4: the top-level line output << x ; is accepted if and only if x is in
\* the symbol table: the iteration that reads it continues exactly when x is
\* declared, and returns False otherwise.
C4_OutputIffDeclared ==
    [][(Validating /\ OutputOfName(CurrentLine))
            => ((pc' = "validating") <=> (OutputName(CurrentLine) \in DOMAIN symbol_table))]_vars

----------------------------------------------------------------------------
(* C5 *)

DeclaredEarlier(name, i) ==
    \E j \in 1..(i - 1) :
        /\ MatchDeclaration(source_lines[j]).ok
        /\ MatchDeclaration(source_lines[j]).var_name = name

\* C5: declared before use: in every accepted source each assignment
\* statement, at top level or as the body of a conditional, targets a name
\* that a declaration line earlier in the source declared (so the source
\* x:=5; alone is not accepted).
C5_DeclaredBeforeUse ==
    Accepted =>
        \A i \in 1..Len(source_lines) :
            MatchAssignment(source_lines[i]).ok
                => DeclaredEarlier(MatchAssignment(source_lines[i]).var_name, i)

\* an accepted source with an assignment as a body and one at top level
C5_Witness ==
    /\ Accepted
    /\ \E i, k \in 2..Len(source_lines) :
        /\ MatchAssignment(source_lines[i]).ok
        /\ MatchIf(source_lines[i - 1]).ok
        /\ MatchAssignment(source_lines[k]).ok
        /\ ~MatchIf(source_lines[k - 1]).ok

----------------------------------------------------------------------------
(* C6 *)

\* C6: a declaration line whose name is already in the symbol table makes
\* validation fail, whatever the two types are, and the failing step leaves
\* the symbol table as it was.
C6_RedeclarationFails ==
    [][(/\ Validating
        /\ MatchDeclaration(CurrentLine).ok
        /\ MatchDeclaration(CurrentLine).var_name \in DOMAIN symbol_table)
            => (pc' = "returned" /\ verdict' = "False" /\ symbol_table' = symbol_table)]_vars

\* a pass rejected at a second declaration of a name, of another type
C6_Witness ==
    /\ Rejected
    /\ line_index >= 2
    /\ MatchDeclaration(RejectedLine).ok
    /\ MatchDeclaration(RejectedLine).var_name \in DOMAIN symbol_table
    /\ symbol_table[MatchDeclaration(RejectedLine).var_name]
            # MatchDeclaration(RejectedLine).var_type

----------------------------------------------------------------------------
(* C7 *)

\* C7: the symbol table only grows: every step keeps each entry with its
\* type, and the only step that changes the table is an accepted declaration
\* step, which adds the declared name with the declared type.
C7_TableOnlyGrows ==
    [][/\ \A n \in DOMAIN symbol_table :
            n \in DOMAIN symbol_table' /\ symbol_table'[n] = symbol_table[n]
       /\ (symbol_table' # symbol_table) =>
            /\ Validating
            /\ MatchDeclaration(CurrentLine).ok
            /\ pc' = "validating"
            /\ DOMAIN symbol_table' =
                    DOMAIN symbol_table \cup {MatchDeclaration(CurrentLine).var_name}
            /\ symbol_table'[MatchDeclaration(CurrentLine).var_name] =
                    MatchDeclaration(CurrentLine).var_type]_vars

\* an accepted pass of two declarations
C7_Witness ==
    /\ Accepted
    /\ Cardinality(DOMAIN symbol_table) = 2
    /\ \E i \in 1..Len(source_lines) : MatchIf(source_lines[i]).ok

----------------------------------------------------------------------------
(* C8 *)

\* C8: every validation starts with an empty symbol table and a cursor at 0,
\* and validating the same source again with the same object gives the
\* verdict of the first validation.
C8_FreshStatePerValidation ==
    /\ (pc = "validating" /\ iterations = 0)
            => (symbol_table = EmptyTable /\ line_index = 0)
    /\ pc = "done" => verdict = first_verdict

----------------------------------------------------------------------------
(* C9 *)

\* C9: for a variable declared integer a top-level assignment of a literal
\* is accepted if and only if the literal has no fractional part.
C9_IntegerAssignment ==
    [][(/\ Validating
        /\ MatchAssignment(CurrentLine).ok
        /\ MatchAssignment(CurrentLine).var_name \in DOMAIN symbol_table
        /\ symbol_table[MatchAssignment(CurrentLine).var_name] = kw_integer)
            => ((pc' = "validating") <=> ~Contains(MatchAssignment(CurrentLine).value, "."))]_vars

\* x : integer ; x := 5 ; accepted, then x := 5.5 ; rejected
C9_Witness ==
    /\ Rejected
    /\ line_index = 3
    /\ source_lines[1] = DeclXInt
    /\ source_lines[2] = AsgX5
    /\ RejectedLine = AsgX5p5

----------------------------------------------------------------------------
(* C10 *)

\* C10: the loop terminates: the cursor starts at 0, every iteration raises
\* it, by 2 when it accepts a conditional with its body line and by 1
\* otherwise, it never exceeds the number of lines, there are at most as many
\* iterations as lines.
C10_CursorAdvances ==
    [][/\ (pc' = "validating" /\ iterations' = 0) => line_index' = 0
       /\ line_index' <= Len(source_lines')
       /\ iterations' <= line_index'
       /\ Validating =>
            /\ iterations' = iterations + 1
            /\ line_index' > line_index
            /\ line_index' =
                 IF MatchIf(CurrentLine).ok /\ pc' = "validating"
                 THEN line_index + 2
                 ELSE line_index + 1]_vars

\* an accepted pass with a conditional: fewer iterations than lines
C10_Witness ==
    /\ Accepted
    /\ iterations >= 2
    /\ iterations < line_index
    /\ line_index = Len(source_lines)

----------------------------------------------------------------------------
(* C11 *)

\* the line has one of the four shapes
MatchesAShape(line) ==
    \/ MatchDeclaration(line).ok
    \/ MatchAssignment(line).ok
    \/ MatchOutput(line).ok
    \/ MatchIf(line).ok

\* C11: validation returns True exactly when the cursor has reached the
\* number of lines, every step before having matched a shape and continued;
\* a step that rejects returns False at once, with the cursor on the
\* rejected line and the table as it was; once validation has returned, the
\* cursor, the table and the verdict stay and the loop is not entered again
\* in that run.
C11_FirstRejectionEnds ==
    [][/\ Validating =>
            /\ verdict' # "True"
            /\ ~MatchesAShape(CurrentLine) => pc' = "returned"
            /\ pc' = "validating" \/ pc' = "returned"
            /\ pc' = "returned" =>
                 /\ verdict' = "False"
                 /\ line_index' = line_index + 1
                 /\ symbol_table' = symbol_table
       /\ (pc = "validating" /\ ~Validating) =>
            /\ pc' = "returned"
            /\ verdict' = "True"
            /\ line_index' = Len(source_lines)
       /\ (pc = "returned" \/ pc = "done") =>
            /\ pc' # "validating"
            /\ line_index' = line_index
            /\ symbol_table' = symbol_table
            /\ iterations' = iterations
            /\ pc' = "done" => verdict' = verdict
       /\ verdict' # verdict => (pc = "validating" \/ pc = "done")]_vars

\* a pass rejected before its last line, after declarations were recorded
C11_Witness ==
    /\ Rejected
    /\ line_index >= 2
    /\ line_index < Len(source_lines)
    /\ symbol_table # EmptyTable
    /\ printed = <<MsgError>>

----------------------------------------------------------------------------
(* C12 *)

SymbolSet == {symbols[k] : k \in 1..Len(symbols)}

\* the longest symbol of the set standing at position i (<<>> when none does)
LongestAt(text, i) ==
    LET here == {sym \in SymbolSet : text[i] = sym[1] /\ LitAt(text, i, sym)}
    IN  IF here = {} THEN <<>>
        ELSE CHOOSE sym \in here : \A other \in here : Len(other) <= Len(sym)

\* leftmost-longest matching over the symbol set, from position i on
RECURSIVE LongestScan(_, _)
LongestScan(text, i) ==
    IF i > Len(text) THEN <<>>
    ELSE IF text[i] \in Letter \cup Digit \cup Whitespace THEN LongestScan(text, i + 1)
    ELSE LET m == LongestAt(text, i)
         IN  IF m # <<>>
             THEN <<[pos |-> i, sym |-> m]>> \o LongestScan(text, i + Len(m))
             ELSE LongestScan(text, i + 1)

\* a colon of the text that no = follows
BareColon(text) ==
    \E i \in 1..Len(text) :
        /\ text[i] = ":"
        /\ (i = Len(text) \/ text[i + 1] # "=")

\* C12: when RES_SYM.TXT has been written, the matches the ordered
\* alternation gave on the source text are, position by position, the
\* leftmost-longest matches over the symbol set; where := stands at a scan
\* position the match is := ; the file lists the symbols of those matches,
\* and lists : only for a colon that no = follows.
C12_OrderedIsLongest ==
    pc = "res_sym" =>
        LET full_text == JoinLines(source_lines)
            matches == FindSymbols(full_text, 1)
            listed == {res_sym_txt[k] : k \in 1..Len(res_sym_txt)}
        IN  /\ matches = LongestScan(full_text, 1)
            /\ \A k \in 1..Len(matches) :
                    LitAt(full_text, matches[k].pos, <<":", "=">>)
                        => matches[k].sym = <<":", "=">>
            /\ listed \cap SymbolSet = {matches[k].sym : k \in 1..Len(matches)}
            /\ <<":">> \in listed => BareColon(full_text)

\* a source with := and no bare colon, and with == and !=, tokenized
C12_Witness ==
    /\ pc = "res_sym"
    /\ Len(source_lines) >= 3
    /\ <<":", "=">> \in {res_sym_txt[k] : k \in 1..Len(res_sym_txt)}
    /\ <<"=", "=">> \in {res_sym_txt[k] : k \in 1..Len(res_sym_txt)}
    /\ <<"!", "=">> \in {res_sym_txt[k] : k \in 1..Len(res_sym_txt)}
    /\ <<":">> \notin {res_sym_txt[k] : k \in 1..Len(res_sym_txt)}
    /\ <<"=">> \notin {res_sym_txt[k] : k \in 1..Len(res_sym_txt)}

----------------------------------------------------------------------------
(* C13 *)

\* the last line of the filtered source is a conditional
LastLineIsConditional ==
    /\ source_lines # <<>>
    /\ MatchIf(source_lines[Len(source_lines)]).ok

\* C13: a source whose last filtered line is a conditional is never
\* accepted: every validation of it returns False, and the step that
\* examines that line returns False whatever the condition and the table.
C13_LastConditionalFails ==
    [][/\ (LastLineIsConditional /\ verdict' # "none") => verdict' = "False"
       /\ (Validating /\ LastLineIsConditional /\ line_index + 1 = Len(source_lines))
            => (pc' = "returned" /\ verdict' = "False")]_vars

\* a pass rejected at its last line, a conditional over a declared variable
C13_Witness ==
    /\ Rejected
    /\ line_index = Len(source_lines)
    /\ line_index >= 2
    /\ MatchIf(RejectedLine).ok
    /\ FindIdentifiers(MatchIf(RejectedLine).condition, 1) # <<>>
    /\ CheckExpressionVariables(MatchIf(RejectedLine).condition, symbol_table)

----------------------------------------------------------------------------
(* C14 *)

\* the line is an output line whose trimmed content starts and ends with "
OutputOfQuoted(line) ==
    LET m == MatchOutput(line)
        content == Strip(m.content)
    IN  /\ m.ok
        /\ content # <<>>
        /\ Head(content) = "\""
        /\ content[Len(content)] = "\""

\* C14: the step that examines an output line of quoted content continues,
\* with the cursor one further and the table as it was, whatever the table
\* holds.
C14_QuotedOutputAccepted ==
    [][(Validating /\ OutputOfQuoted(CurrentLine))
            => /\ pc' = "validating"
               /\ line_index' = line_index + 1
               /\ symbol_table' = symbol_table]_vars

\* an accepted source that outputs a quoted text before any declaration and
\* again after one
C14_Witness ==
    /\ Accepted
    /\ Len(source_lines) >= 3
    /\ source_lines[1] = OutHello
    /\ source_lines[Len(source_lines)] = OutHello
    /\ symbol_table # EmptyTable

----------------------------------------------------------------------------
(* C15 *)

\* the steps of run() in their order: from each position, the next one
RunOrder ==
    \/ pc = "start" /\ file_exists /\ pc' = "read"
    \/ pc = "start" /\ ~file_exists /\ pc' = "done"
    \/ pc = "read" /\ pc' = "nospaces"
    \/ pc = "nospaces" /\ pc' = "res_sym"
    \/ pc = "res_sym" /\ pc' = "validating"
    \/ pc = "validating" /\ (pc' = "validating" \/ pc' = "returned")
    \/ pc = "returned" /\ pc' = "done"
    \/ pc = "done" /\ pc' = "start"

\* C15: the steps of a run follow the order load, NOSPACES.TXT, RES_SYM.TXT,
\* validation, report, each artifact being written by its step only; a run
\* that has ended has printed exactly one message and nothing is printed
\* before; the message is NO ERROR(S) FOUND exactly when validation returned
\* True and ERROR exactly when it returned False; with the source file
\* missing the run prints the not-found message at once, writes no artifact
\* and starts no validation.
C15_OneMessageInOrder ==
    [][/\ RunOrder
       /\ nospaces_txt' # nospaces_txt => (pc = "read" /\ pc' = "nospaces")
       /\ res_sym_txt' # res_sym_txt => (pc = "nospaces" /\ pc' = "res_sym")
       /\ pc' = "nospaces" => nospaces_txt' = NoSpacesText(source_lines)
       /\ pc' = "validating" => nospaces_txt' = NoSpacesText(source_lines)
       /\ Len(printed') = IF pc' = "done" THEN 1 ELSE 0
       /\ pc' = "done" =>
            /\ printed' = <<MsgNoError>> <=> verdict' = "True"
            /\ printed' = <<MsgError>> <=> verdict' = "False"
            /\ printed' = <<MsgNotFound>> <=> ~file_exists
       /\ ~file_exists =>
            /\ pc' = "start" \/ pc' = "done"
            /\ verdict' = "none"
            /\ UNCHANGED <<source_lines, nospaces_txt, res_sym_txt, symbol_table,
                           line_index, iterations>>]_vars

\* a run of two lines or more that ended with the success message, both
\* artifacts written
C15_Witness ==
    /\ pc = "done"
    /\ verdict = "True"
    /\ printed = <<MsgNoError>>
    /\ Len(source_lines) >= 2
    /\ nospaces_txt # <<>>
    /\ res_sym_txt # <<>>

----------------------------------------------------------------------------
(* C16 *)

\* the step examines a conditional whose condition passes, which has a next
\* line, and the line the code tests for indentation is indented: the body
\* check is reached, on the line after the conditional
BodyCheckReached ==
    /\ Validating
    /\ MatchIf(CurrentLine).ok
    /\ CheckExpressionVariables(MatchIf(CurrentLine).condition, symbol_table)
    /\ line_index + 1 < Len(source_lines)
    /\ StartsWithBlank(NextLineFull(file, line_index + 1))

BodyLine == source_lines[line_index + 2]

\* C16: where the body check is reached, an assignment-shaped body is
\* accepted exactly when its variable is in the table, whatever the type and
\* the literal; a body that is neither assignment- nor output-shaped (a
\* declaration, a conditional) is rejected; an accepted body leaves the table
\* as it was and the cursor after the body.
C16_BodyCheck ==
    [][BodyCheckReached =>
        /\ MatchAssignment(BodyLine).ok =>
             (pc' = "validating"
                <=> MatchAssignment(BodyLine).var_name \in DOMAIN symbol_table)
        /\ (~MatchAssignment(BodyLine).ok /\ ~MatchOutput(BodyLine).ok) =>
             (pc' = "returned" /\ verdict' = "False")
        /\ (MatchDeclaration(BodyLine).ok \/ MatchIf(BodyLine).ok) => pc' = "returned"
        /\ pc' = "validating" =>
             (line_index' = line_index + 2 /\ symbol_table' = symbol_table)]_vars

\* x : integer ; If ( x == 1 ) with the body x := 5.5 ; accepted
C16_Witness ==
    /\ Accepted
    /\ Len(source_lines) = 3
    /\ source_lines[1] = DeclXInt
    /\ source_lines[2] = IfX
    /\ source_lines[3] = AsgX5p5
    /\ file[3] = AsgX5p5Ind
    /\ TypeMismatch(symbol_table[<<"x">>], MatchAssignment(AsgX5p5).value)

----------------------------------------------------------------------------
(* C17 *)

\* C17: a reserved word is not a variable: in every state no key of the
\* symbol table is a reserved word (a declaration line whose identifier is
\* integer, double, output or If never inserts it).
C17_NoReservedWordDeclared ==
    \A name \in DOMAIN symbol_table : name \notin reserved_words

====
